---- MODULE Spec2Model ----
(***************************************************************************)
(* Akinator engine (src/src/model.py) and its session server               *)
(* (src/src/server.py).                                                    *)
(*                                                                         *)
(* Number representation.  Probabilities are exact rationals: a belief is  *)
(* a record [n, d] standing for the vector n[i]/d, kept in lowest terms.   *)
(* Knowledge-base entries and answer values are counted in quarters        *)
(* (0..4 for 0, 0.25, 0.5, 0.75, 1.0).  Entropies are fixed-point numbers  *)
(* with ONE = 2^10 standing for 1 bit.                                     *)
(***************************************************************************)
EXTENDS Integers, FiniteSets, Sequences, TLC

VARIABLES engine, sessions, response, threads, applied, call

vars == <<engine, sessions, response, threads, applied, call>>

-----------------------------------------------------------------------------
(* Module constants of model.py and server.py *)

\* answer_val / KB resolution: 1.0, 0.75, 0.5, 0.25, 0.0 are 4, 3, 2, 1, 0 quarters
AnswerUnit == 4
MAX_QUESTIONS_PER_CATEGORY == 4
\* 0.7, in tenths
YES_THRESHOLD == 7
\* 0.03 and 0.97, in hundredths
MIN_P_YES == 3
MAX_P_YES == 97
\* 0.1 and 0.9, in tenths
SOFT_MIN_LIKELIHOOD == 1
SOFT_MATCH_LIKELIHOOD == 9
TOP_K_CANDIDATES == 20
\* 0.3, in tenths
TOP_K_DISCRIMINATION_BETA == 3
NARROWED_EFFECTIVE_N == 25
\* 0.001, in thousandths
EFFECTIVE_PROB_THRESHOLD == 1
\* threshold=0.8 of the proactive guess in /answer, in tenths
ANSWER_GUESS_THRESHOLD == 8
\* threshold=0.0 of /guess, in tenths
FORCED_GUESS_THRESHOLD == 0

ONE == 2 ^ 10
Mega == 1000 * 1000
NegInf == 0 - (2 ^ 24)
None == <<>>
NoCategory == "None"

-----------------------------------------------------------------------------
(* Arithmetic helpers *)

Abs(x) == IF x < 0 THEN 0 - x ELSE x
Min(a, b) == IF a < b THEN a ELSE b

RECURSIVE Gcd(_, _)
Gcd(a, b) == IF b = 0 THEN a ELSE Gcd(b, a % b)

\* sum of f[i] for i in 0..k-1
RECURSIVE SumTo(_, _)
SumTo(f, k) == IF k = 0 THEN 0 ELSE f[k - 1] + SumTo(f, k - 1)

\* sum of f[i] for i in the set S
RECURSIVE SumOver(_, _)
SumOver(f, S) ==
    IF S = {} THEN 0
    ELSE LET i == CHOOSE x \in S : TRUE IN f[i] + SumOver(f, S \ {i})

RECURSIVE GcdTo(_, _)
GcdTo(f, k) == IF k = 0 THEN 0 ELSE Gcd(f[k - 1], GcdTo(f, k - 1))

\* the same rational vector in lowest terms
Reduce(b, N) ==
    LET g == Gcd(b.d, GcdTo(b.n, N))
    IN  IF g <= 1 THEN b
        ELSE [n |-> [i \in 0..(N - 1) |-> b.n[i] \div g], d |-> b.d \div g]

BeliefSum(b, N) == SumTo(b.n, N)

\* floor(log2(b/a)) for 0 < a <= b
RECURSIVE Log2Floor(_, _)
Log2Floor(a, b) == IF 2 * a <= b THEN 1 + Log2Floor(2 * a, b) ELSE 0

\* the fractional binary digits of log2(y / ONE), y in [ONE, 2*ONE)
RECURSIVE Log2Frac(_, _, _)
Log2Frac(y, bits, acc) ==
    IF bits = 0 THEN acc
    ELSE LET y2 == (y * y) \div ONE
         IN  IF y2 >= 2 * ONE
             THEN Log2Frac(y2 \div 2, bits - 1, 2 * acc + 1)
             ELSE Log2Frac(y2, bits - 1, 2 * acc)

\* -log2(p / ONE) * ONE for 0 < p <= ONE
NegLog2(p) ==
    LET e == Log2Floor(p, ONE)
        y == (ONE * ONE) \div (p * (2 ^ e))
    IN  e * ONE + Log2Frac(y, 10, 0)

\* p.clamp(1e-7, 1 - 1e-7) followed by -p*log2(p) - (1-p)*log2(1-p);
\* the clamped ends have entropy 2.5e-6, which is 0 at this resolution
BinaryEntropy(p) ==
    IF p <= 0 \/ p >= ONE THEN 0
    ELSE (p * NegLog2(p) + (ONE - p) * NegLog2(ONE - p)) \div ONE

-----------------------------------------------------------------------------
(* Question texts: a text is a sequence of words; the final "?" is kept    *)
(* apart in the field q.                                                   *)

Lower(w) ==
    CASE w \in {"Is", "IS", "is"} -> "is"
      [] w \in {"Gender", "gender"} -> "gender"
      [] w \in {"Country", "country"} -> "country"
      [] w \in {"Occupation", "occupation"} -> "occupation"
      [] w \in {"Unknown", "unknown", "UNKNOWN"} -> "unknown"
      [] OTHER -> w

Text(words) == [words |-> words, q |-> TRUE]

\* t.lower().startswith("is <cat> ")
LowerStartsWith(t, cat) ==
    /\ Len(t.words) >= 3
    /\ Lower(t.words[1]) = "is"
    /\ Lower(t.words[2]) = cat

\* t.startswith("Is <cat> "), case-sensitive
StartsWith(t, cat) ==
    /\ Len(t.words) >= 3
    /\ t.words[1] = "Is"
    /\ t.words[2] = cat

_feature_category(t) ==
    IF LowerStartsWith(t, "gender") THEN "gender"
    ELSE IF LowerStartsWith(t, "country") THEN "country"
    ELSE IF LowerStartsWith(t, "occupation") THEN "occupation"
    ELSE NoCategory

\* the words after the prefix, "?" stripped; <<>> is the empty string
_feature_value(t) ==
    IF \/ StartsWith(t, "gender")
       \/ StartsWith(t, "country")
       \/ StartsWith(t, "occupation")
    THEN SubSeq(t.words, 3, Len(t.words))
    ELSE <<>>

_is_unknown_value(t) ==
    LET v == _feature_value(t)
    IN  Len(v) = 1 /\ Lower(v[1]) = "unknown"

-----------------------------------------------------------------------------
(* AkinatorEngine: e is the loaded engine [N, M, KB, prior_probs,          *)
(* candidates, features]; indices are 0-based as in the source.            *)

Candidates(e) == 0..(e.N - 1)
Features(e) == 0..(e.M - 1)

get_category_of_question(e, question_idx) ==
    IF 0 <= question_idx /\ question_idx < e.M
    THEN _feature_category(e.features[question_idx])
    ELSE NoCategory

\* dict.get(key, 0)
Get(dict, key) == IF key \in DOMAIN dict THEN dict[key] ELSE 0

\* evaluates a function once, to an explicit table
Table(f) == f @@ <<>>

\* p_yes = KB.T @ current_probs, as numerators over PYesDen; the sum runs
\* over the nonzero entries of column j
PYesNum(e, current_probs) ==
    Table([j \in Features(e) |->
        SumOver([i \in Candidates(e) |-> current_probs.n[i] * e.KB[i][j]], e.nonzero[j])])
PYesDen(current_probs) == AnswerUnit * current_probs.d

\* a fraction num / den in [0, 1] as a fixed-point number (large fractions
\* are first scaled down to 20 bits)
Fixed(num, den) ==
    LET scale == (den \div (2 ^ 20)) + 1
    IN  ((num \div scale) * ONE) \div (den \div scale)

\* BinaryEntropy of every entry of the fixed-point vector p
EntropyOf(p) ==
    LET h == Table([x \in {p[j] : j \in DOMAIN p} |-> BinaryEntropy(x)])
    IN  Table([j \in DOMAIN p |-> h[p[j]]])

\* the first `slots` indices from i on whose entry equals v
RECURSIVE FirstEqual(_, _, _, _, _)
FirstEqual(probs, N, v, i, slots) ==
    IF i >= N \/ slots <= 0 THEN {}
    ELSE IF probs[i] = v THEN {i} \cup FirstEqual(probs, N, v, i + 1, slots - 1)
    ELSE FirstEqual(probs, N, v, i + 1, slots)

\* current_probs.topk(k): the indices of the k largest entries (ties go to
\* the lower index)
TopK(e, current_probs, k) ==
    LET probs == current_probs.n
        values == {probs[i] : i \in Candidates(e)}
        above(v) == {i \in Candidates(e) : probs[i] > v}
        \* the k-th largest value
        kth == CHOOSE v \in values :
                   /\ Cardinality(above(v)) < k
                   /\ \A w \in values : w < v => Cardinality(above(w)) >= k
    IN  IF k >= e.N THEN Candidates(e)
        ELSE above(kth) \cup FirstEqual(probs, e.N, kth, 0, k - Cardinality(above(kth)))

_entropy_topk(e, current_probs) ==
    LET k == Min(TOP_K_CANDIDATES, e.N)
        top_idx == TopK(e, current_probs, k)
        \* top_sum, floored at 1e-12: below the floor only when it is 0
        top_sum == SumOver(current_probs.n, top_idx)
        p_yes_topk == Table([j \in Features(e) |->
            IF top_sum = 0 THEN 0
            ELSE Fixed(SumOver([i \in Candidates(e) |-> current_probs.n[i] * e.KB[i][j]],
                               e.nonzero[j] \cap top_idx),
                       AnswerUnit * top_sum)])
    IN  IF k <= 0 THEN [j \in Features(e) |-> 0]
        ELSE EntropyOf(p_yes_topk)

\* entropy[j] of p_yes[j], before any mask
Entropy(e, current_probs) ==
    LET num == PYesNum(e, current_probs)
        den == PYesDen(current_probs)
    IN  EntropyOf(Table([j \in Features(e) |-> Fixed(num[j], den)]))

\* variants of the exclusion rules that exclude nothing
AskedNotExcluded(asked_mask, j) == FALSE
ResolvedNotExcluded(e, resolved_categories, j) == FALSE
OverCapNotExcluded(e, apply_cap, asked_count_per_category, j) == FALSE
SameCategoryNotExcluded(e, skip_same_category, last_asked_idx, j) == FALSE
BoundsNotExcluded(current_probs, p_yes, bounds, j) == FALSE

\* variant of OutsidePYesBounds that uses the module constants when no
\* bounds are given
DefaultBounds(current_probs, p_yes, bounds, j) ==
    LET b == IF bounds = None THEN <<MIN_P_YES, MAX_P_YES>> ELSE bounds
    IN  \/ p_yes[j] * (100 \div AnswerUnit) < b[1] * current_probs.d
        \/ p_yes[j] * (100 \div AnswerUnit) > b[2] * current_probs.d

\* 1) already asked
AlreadyAsked(asked_mask, j) == asked_mask[j] = 1

\* 2) never ask "Unknown"
NeverAskUnknown(e, j) == _is_unknown_value(e.features[j])

\* 3) uninformative questions: p_yes < min_p_yes or p_yes > max_p_yes;
\* bounds is None or <<min_p_yes, max_p_yes>> in hundredths
OutsidePYesBounds(current_probs, p_yes, bounds, j) ==
    /\ bounds # None
    /\ \/ p_yes[j] * (100 \div AnswerUnit) < bounds[1] * current_probs.d
       \/ p_yes[j] * (100 \div AnswerUnit) > bounds[2] * current_probs.d

\* 4) resolved categories
InResolvedCategory(e, resolved_categories, j) ==
    LET cat == _feature_category(e.features[j])
    IN  cat # NoCategory /\ cat \in resolved_categories

\* 5) cap per category
OverCategoryCap(e, apply_cap, asked_count_per_category, j) ==
    LET cat == _feature_category(e.features[j])
    IN  /\ apply_cap
        /\ cat # NoCategory
        /\ Get(asked_count_per_category, cat) >= MAX_QUESTIONS_PER_CATEGORY

\* 6) same category as the last question
SameCategoryAsLast(e, skip_same_category, last_asked_idx, j) ==
    /\ skip_same_category
    /\ last_asked_idx # None
    /\ 0 <= last_asked_idx[1] /\ last_asked_idx[1] < e.M
    /\ LET last_cat == _feature_category(e.features[last_asked_idx[1]])
       IN  last_cat # NoCategory /\ _feature_category(e.features[j]) = last_cat

\* p_yes and entropy are PYesNum and Entropy of current_probs (they are the
\* same in every pass)
_compute_entropy_mask(e, current_probs, p_yes, entropy, asked_mask, last_asked_idx, resolved_categories, asked_count_per_category, skip_same_category, apply_cap, bounds) ==
    LET masked(j) ==
            \/ AlreadyAsked(asked_mask, j)
            \/ NeverAskUnknown(e, j)
            \/ OutsidePYesBounds(current_probs, p_yes, bounds, j)
            \/ InResolvedCategory(e, resolved_categories, j)
            \/ OverCategoryCap(e, apply_cap, asked_count_per_category, j)
            \/ SameCategoryAsLast(e, skip_same_category, last_asked_idx, j)
    IN  Table([j \in Features(e) |-> IF masked(j) THEN NegInf ELSE entropy[j]])

\* entropy + 0.3 * entropy_topk, times ten
Score(entropy, entropy_topk) ==
    Table([j \in DOMAIN entropy |->
        IF entropy[j] = NegInf THEN NegInf
        ELSE 10 * entropy[j] + TOP_K_DISCRIMINATION_BETA * entropy_topk[j]])

\* variant of ArgMax: the first index that is not excluded
FirstEligible(score) ==
    CHOOSE j \in DOMAIN score :
        score[j] > NegInf /\ \A h \in DOMAIN score : h < j => score[h] <= NegInf

\* score.argmax(): the first index holding the maximum
ArgMax(score) ==
    CHOOSE j \in DOMAIN score :
        /\ \A h \in DOMAIN score : score[h] <= score[j]
        /\ \A h \in DOMAIN score : h < j => score[h] < score[j]

_pick_best_question(e, entropy, entropy_topk) ==
    LET score == Score(entropy, entropy_topk)
    IN  IF \A j \in DOMAIN score : score[j] <= NegInf THEN None
        ELSE LET idx == ArgMax(score) IN <<idx, e.features[idx]>>

\* (current_probs > EFFECTIVE_PROB_THRESHOLD).sum(); n/d > t/1000 exactly
\* when n > floor(t*d / 1000)
EffectiveN(e, current_probs) ==
    LET floor == (EFFECTIVE_PROB_THRESHOLD * current_probs.d) \div 1000
    IN  Cardinality({i \in Candidates(e) : current_probs.n[i] > floor})

\* the entropy tensor of relaxation pass 1..4
PassEntropy(e, pass, current_probs, asked_mask, last_asked_idx, resolved_categories, asked_count_per_category) ==
    LET use_p_yes_in_pass1 == EffectiveN(e, current_probs) > NARROWED_EFFECTIVE_N
        bounds1 == IF use_p_yes_in_pass1 THEN <<MIN_P_YES, MAX_P_YES>> ELSE None
        p_yes == PYesNum(e, current_probs)
        entropy == Entropy(e, current_probs)
    IN  CASE pass = 1 ->
               _compute_entropy_mask(e, current_probs, p_yes, entropy, asked_mask,
                   last_asked_idx, resolved_categories, asked_count_per_category,
                   TRUE, TRUE, bounds1)
          [] pass = 2 ->
               _compute_entropy_mask(e, current_probs, p_yes, entropy, asked_mask,
                   last_asked_idx, resolved_categories, asked_count_per_category,
                   TRUE, TRUE, <<1, 99>>)
          [] pass = 3 ->
               _compute_entropy_mask(e, current_probs, p_yes, entropy, asked_mask,
                   last_asked_idx, resolved_categories, <<>>, TRUE, FALSE, None)
          [] pass = 4 ->
               _compute_entropy_mask(e, current_probs, p_yes, entropy, asked_mask,
                   None, resolved_categories, <<>>, FALSE, FALSE, None)

\* the result of relaxation pass 1..4: None or <<idx, text>>
PassResult(e, pass, entropy_topk, current_probs, asked_mask, last_asked_idx, resolved_categories, asked_count_per_category) ==
    _pick_best_question(e,
        PassEntropy(e, pass, current_probs, asked_mask, last_asked_idx,
                    resolved_categories, asked_count_per_category),
        entropy_topk)

\* variant of get_next_question that gives up after pass 3
ThreePasses(e, current_probs, asked_mask, last_asked_idx, resolved_categories, asked_count_per_category) ==
    LET entropy_topk == _entropy_topk(e, current_probs)
        result(pass) == PassResult(e, pass, entropy_topk, current_probs, asked_mask, last_asked_idx, resolved_categories, asked_count_per_category)
    IN  IF result(1) # None THEN result(1)
        ELSE IF result(2) # None THEN result(2)
        ELSE result(3)

get_next_question(e, current_probs, asked_mask, last_asked_idx, resolved_categories, asked_count_per_category) ==
    LET entropy_topk == _entropy_topk(e, current_probs)
        use_p_yes_in_pass1 == EffectiveN(e, current_probs) > NARROWED_EFFECTIVE_N
        bounds1 == IF use_p_yes_in_pass1 THEN <<MIN_P_YES, MAX_P_YES>> ELSE None
        p_yes == PYesNum(e, current_probs)
        entropy == Entropy(e, current_probs)
        pass1 == _pick_best_question(e,
                    _compute_entropy_mask(e, current_probs, p_yes, entropy, asked_mask,
                        last_asked_idx, resolved_categories, asked_count_per_category,
                        TRUE, TRUE, bounds1),
                    entropy_topk)
        pass2 == _pick_best_question(e,
                    _compute_entropy_mask(e, current_probs, p_yes, entropy, asked_mask,
                        last_asked_idx, resolved_categories, asked_count_per_category,
                        TRUE, TRUE, <<1, 99>>),
                    entropy_topk)
        pass3 == _pick_best_question(e,
                    _compute_entropy_mask(e, current_probs, p_yes, entropy, asked_mask,
                        last_asked_idx, resolved_categories, <<>>, TRUE, FALSE, None),
                    entropy_topk)
        pass4 == _pick_best_question(e,
                    _compute_entropy_mask(e, current_probs, p_yes, entropy, asked_mask,
                        None, resolved_categories, <<>>, FALSE, FALSE, None),
                    entropy_topk)
    IN  IF pass1 # None THEN pass1
        ELSE IF pass2 # None THEN pass2
        ELSE IF pass3 # None THEN pass3
        ELSE IF pass4 # None THEN pass4
        ELSE None

\* self.KB[:, question_idx]: an index in -M..-1 counts from the last
\* column, an index outside -M..M-1 raises IndexError
IndexInRange(e, question_idx) == 0 - e.M <= question_idx /\ question_idx < e.M
Column(e, question_idx) == IF question_idx < 0 THEN e.M + question_idx ELSE question_idx

\* variant of Likelihood that ignores the answer
UniformLikelihood(e, question_idx, answer_val) ==
    [num |-> [i \in Candidates(e) |-> 1], den |-> 1]

\* variant of Likelihood with hard likelihoods: 1 for a candidate that
\* agrees with the answer and 0 for one that does not
HardLikelihood(e, question_idx, answer_val) ==
    LET has_feature == [i \in Candidates(e) |->
                           IF e.KB[i][question_idx] * 2 >= AnswerUnit THEN 1 ELSE 0]
    IN  IF answer_val * 10 >= YES_THRESHOLD * AnswerUnit
        THEN [num |-> has_feature, den |-> 1]
        ELSE IF answer_val * 10 <= (10 - YES_THRESHOLD) * AnswerUnit
        THEN [num |-> [i \in Candidates(e) |-> 1 - has_feature[i]], den |-> 1]
        ELSE [num |-> [i \in Candidates(e) |->
                        AnswerUnit - Abs(e.KB[i][question_idx] - answer_val)],
              den |-> AnswerUnit]

\* the likelihood vector of the answer, as numerators over a common
\* denominator: [num, den]
Likelihood(e, question_idx, answer_val) ==
    LET col == [i \in Candidates(e) |-> e.KB[i][Column(e, question_idx)]]
        has_feature == [i \in Candidates(e) |-> IF col[i] * 2 >= AnswerUnit THEN 1 ELSE 0]
        \* 1 - |col - answer_val|, in quarters
        soft == [i \in Candidates(e) |-> AnswerUnit - Abs(col[i] - answer_val)]
        clamped == \E i \in Candidates(e) : soft[i] <= 0
    IN  IF answer_val * 10 >= YES_THRESHOLD * AnswerUnit
        THEN [num |-> [i \in Candidates(e) |->
                        has_feature[i] * SOFT_MATCH_LIKELIHOOD
                        + (1 - has_feature[i]) * SOFT_MIN_LIKELIHOOD],
              den |-> 10]
        ELSE IF answer_val * 10 <= (10 - YES_THRESHOLD) * AnswerUnit
        THEN [num |-> [i \in Candidates(e) |->
                        (1 - has_feature[i]) * SOFT_MATCH_LIKELIHOOD
                        + has_feature[i] * SOFT_MIN_LIKELIHOOD],
              den |-> 10]
        \* likelihood.clamp(min=1e-6)
        ELSE IF clamped
        THEN [num |-> [i \in Candidates(e) |->
                        IF soft[i] <= 0 THEN AnswerUnit ELSE soft[i] * Mega],
              den |-> AnswerUnit * Mega]
        ELSE [num |-> soft, den |-> AnswerUnit]

\* variant of update_belief that leaves the division by total out
UnnormalisedUpdate(e, current_probs, question_idx, answer_val) ==
    LET likelihood == Likelihood(e, question_idx, answer_val)
    IN  Reduce([n |-> [i \in Candidates(e) |->
                        current_probs.n[i] * likelihood.num[i]],
                d |-> current_probs.d * likelihood.den], e.N)

\* total < 1e-12, total being num / den: den is below 2^31 < 1e12, so only
\* a total of 0 is below the floor
BelowFloor(num, den) == num = 0

update_belief(e, current_probs, question_idx, answer_val) ==
    LET likelihood == Likelihood(e, question_idx, answer_val)
        new_probs == Table([i \in Candidates(e) |->
                        current_probs.n[i] * likelihood.num[i]])
        den == current_probs.d * likelihood.den
        total == SumTo(new_probs, e.N)
    IN  IF BelowFloor(total, den)
        \* total = 1e-12: every entry of new_probs is 0, and stays 0
        THEN [n |-> new_probs, d |-> 1]
        ELSE Reduce([n |-> new_probs, d |-> total], e.N)

\* variant of ArgMaxProb: the first candidate
FirstCandidate(e, current_probs) == 0

\* current_probs.argmax(): the first index holding the maximum
ArgMaxProb(e, current_probs) ==
    CHOOSE i \in Candidates(e) :
        /\ \A h \in Candidates(e) : current_probs.n[h] <= current_probs.n[i]
        /\ \A h \in Candidates(e) : h < i => current_probs.n[h] < current_probs.n[i]

\* threshold in tenths; the result is None or <<name, max_prob>>, max_prob
\* being the fraction <<num, den>>
get_top_guess(e, current_probs, threshold) ==
    LET idx == ArgMaxProb(e, current_probs)
        max_prob == <<current_probs.n[idx], current_probs.d>>
    IN  IF max_prob[1] * 10 < threshold * max_prob[2] THEN None
        ELSE <<e.candidates[idx], max_prob>>

-----------------------------------------------------------------------------
(* Knowledge bases on disk and AkinatorEngine.__init__ *)

ZeroBased(seq) == [i \in 0..(Len(seq) - 1) |-> seq[i + 1]]

\* the example of the specification: candidates A, B, C with popularity
\* 5 : 3 : 2 and KB = [[1,0],[0,1],[1,1]]
ExampleData ==
    [KB |-> << <<4, 0>>, <<0, 4>>, <<4, 4>> >>,
     popularity |-> <<5, 3, 2>>,
     candidates |-> <<"A", "B", "C">>,
     features |-> << Text(<<"Is", "gender", "male">>),
                     Text(<<"Is", "occupation", "actor">>) >>]

\* three categories, an "Unknown" column, a free-text question and a
\* knowledge-base entry of 0.5
SmallData ==
    [KB |-> << <<4, 0, 4, 0, 0>>,
               <<4, 0, 0, 4, 2>>,
               <<0, 0, 4, 0, 4>>,
               <<0, 4, 0, 0, 0>> >>,
     popularity |-> <<4, 3, 2, 1>>,
     candidates |-> <<"Ada", "Bob", "Cleo", "Dan">>,
     features |-> << Text(<<"Is", "gender", "male">>),
                     Text(<<"Is", "gender", "Unknown">>),
                     Text(<<"Is", "country", "France">>),
                     Text(<<"Is", "country", "Japan">>),
                     Text(<<"Has", "wings">>) >>]

\* 27 candidates, so that more than NARROWED_EFFECTIVE_N of them can be
\* effective: 25 of popularity 4, one of popularity 2 and one of popularity 1.
\* Five of the first hold two features each, the one of popularity 2 is the
\* only pilot and the one of popularity 1 alone has wings; so P(Yes) starts
\* at 4/103 for a country, 2/103 for the pilot and 1/103 for wings.
BigData ==
    [KB |-> [i \in 1..27 |-> [j \in 1..10 |->
                IF \/ i \in 1..4 /\ j \in {2 * i - 1, 2 * i}
                   \/ i = 26 /\ j = 9
                   \/ i = 27 /\ j = 10
                THEN 4 ELSE 0]],
     popularity |-> [i \in 1..27 |-> IF i = 27 THEN 1 ELSE IF i = 26 THEN 2 ELSE 4],
     candidates |-> [i \in 1..27 |-> i],
     features |-> << Text(<<"Is", "country", "France">>),
                     Text(<<"Is", "country", "Japan">>),
                     Text(<<"Is", "country", "Peru">>),
                     Text(<<"Is", "country", "Chad">>),
                     Text(<<"Is", "country", "Fiji">>),
                     Text(<<"Is", "occupation", "actor">>),
                     Text(<<"Is", "occupation", "poet">>),
                     Text(<<"Is", "occupation", "chef">>),
                     Text(<<"Is", "occupation", "pilot">>),
                     Text(<<"Has", "wings">>) >>]

\* the example with lists that do not fit the matrix: four names for three
\* rows and three texts for two columns
LongListsData ==
    [KB |-> ExampleData.KB,
     popularity |-> ExampleData.popularity,
     candidates |-> ExampleData.candidates \o <<"D">>,
     features |-> ExampleData.features \o << Text(<<"Is", "country", "France">>) >>]

\* the example with a third feature written in lower case
LowerCaseData ==
    [KB |-> << <<4, 0, 0>>, <<0, 4, 4>>, <<4, 4, 0>> >>,
     popularity |-> ExampleData.popularity,
     candidates |-> ExampleData.candidates,
     features |-> ExampleData.features \o << Text(<<"is", "gender", "unknown">>) >>]

\* prior / prior.sum(); N, M = KB.shape; nonzero[j] indexes the nonzero
\* entries of column j of KB
AkinatorEngine(data) ==
    LET N == Len(data.KB)
        M == IF N = 0 THEN 0 ELSE Len(data.KB[1])
        prior == ZeroBased(data.popularity)
    IN  [N |-> N,
         M |-> M,
         KB |-> [i \in 0..(N - 1) |-> ZeroBased(data.KB[i + 1])],
         nonzero |-> [j \in 0..(M - 1) |-> {i \in 0..(N - 1) : data.KB[i + 1][j + 1] # 0}],
         prior_probs |-> Reduce([n |-> prior, d |-> SumTo(prior, Len(data.popularity))], N),
         candidates |-> ZeroBased(data.candidates),
         features |-> ZeroBased(data.features)]

-----------------------------------------------------------------------------
(* server.py *)

\* bounds of the model
MaxSessions == 2
MaxGames == 1
MaxThreads == 2

\* session ids handed out are 1, 2, ...; 0 is an id that was never issued
SessionIds == 0..MaxSessions
Threads == 1..MaxThreads
AnswerValues == 0..AnswerUnit

Idle == [pc |-> "idle"]

\* variant of _asked_mask that marks no feature as asked
EmptyMask(asked_set, M) == [i \in 0..(M - 1) |-> 0]

_asked_mask(asked_set, M) == [i \in 0..(M - 1) |-> IF i \in asked_set THEN 1 ELSE 0]

NoApplied(e) == [j \in Features(e) |-> 0]

\* uuid.uuid4().hex: an id no session has
NewSessionId == Cardinality(DOMAIN sessions) + 1

\* the request is kept with the response: session_id and answer_value
\* are the request's
start_game(limit) ==
    /\ Cardinality(DOMAIN sessions) < limit
    /\ LET session_id == NewSessionId
           current_probs == engine.prior_probs
           asked_set == {}
           next == get_next_question(engine, current_probs,
                       _asked_mask(asked_set, engine.M), None, {}, <<>>)
       IN  IF next = None
           THEN /\ response' = [op |-> "start_game", status |-> 500]
                /\ UNCHANGED <<sessions, applied>>
           ELSE /\ sessions' = [s \in DOMAIN sessions \cup {session_id} |->
                       IF s = session_id
                       THEN [current_probs |-> current_probs,
                             asked_set |-> asked_set,
                             current_question_idx |-> next[1],
                             resolved_categories |-> {},
                             asked_count_per_category |-> <<>>]
                       ELSE sessions[s]]
                /\ applied' = [s \in DOMAIN sessions \cup {session_id} |->
                       IF s = session_id THEN NoApplied(engine) ELSE applied[s]]
                /\ response' = [op |-> "start_game", status |-> 200,
                                session_id |-> session_id, question |-> next[2]]
    /\ UNCHANGED <<engine, threads, call>>

\* dict[key] = value
Put(dict, key, value) ==
    [k \in DOMAIN dict \cup {key} |-> IF k = key THEN value ELSE dict[k]]

\* variant of AnswerUpdated that counts a question only when it resolves its
\* category
AnswerUpdatedCountsYes(state, current_probs, q_idx, answer_value) ==
    LET new_probs == update_belief(engine, current_probs, q_idx, answer_value)
        cat == get_category_of_question(engine, q_idx)
        counts == state.asked_count_per_category
        yes == cat # NoCategory /\ answer_value * 10 >= YES_THRESHOLD * AnswerUnit
    IN  [state EXCEPT
            !.current_probs = new_probs,
            !.asked_set = @ \cup {q_idx},
            !.asked_count_per_category =
                IF yes THEN Put(counts, cat, Get(counts, cat) + 1) ELSE @,
            !.resolved_categories = IF yes THEN @ \cup {cat} ELSE @]

\* lines 387-396 of answer: the session state after the belief update and
\* the bookkeeping of the answered question
AnswerUpdated(state, current_probs, q_idx, answer_value) ==
    LET new_probs == update_belief(engine, current_probs, q_idx, answer_value)
        cat == get_category_of_question(engine, q_idx)
        counts == state.asked_count_per_category
    IN  [state EXCEPT
            !.current_probs = new_probs,
            !.asked_set = @ \cup {q_idx},
            !.asked_count_per_category =
                IF cat # NoCategory THEN Put(counts, cat, Get(counts, cat) + 1) ELSE @,
            !.resolved_categories =
                IF cat # NoCategory /\ answer_value * 10 >= YES_THRESHOLD * AnswerUnit
                THEN @ \cup {cat} ELSE @]

\* lines 399-406 of answer: the next question for the session state
AnswerNextQuestion(state, new_probs, q_idx) ==
    get_next_question(engine, new_probs, _asked_mask(state.asked_set, engine.M),
                      <<q_idx>>, state.resolved_categories,
                      state.asked_count_per_category)

\* lines 407-415 of answer; answered is the question the request answered
AnswerResponse(session_id, answer_value, answered, next, new_probs) ==
    LET top == get_top_guess(engine, new_probs, ANSWER_GUESS_THRESHOLD)
    IN  [op |-> "answer", status |-> 200,
         session_id |-> session_id, answer_value |-> answer_value,
         answered |-> answered,
         question |-> IF next = None THEN <<>> ELSE next[2],
         top_guess |-> IF top = None THEN None ELSE <<top[1]>>,
         top_guess_probability |-> IF top = None THEN None ELSE top[2]]

\* variant of Error: the request is answered as a success
NoError(op, session_id, status) ==
    [op |-> op, status |-> 200, session_id |-> session_id]

\* raise HTTPException(status_code=status)
Error(op, session_id, status) ==
    [op |-> op, status |-> status, session_id |-> session_id]

\* variant of answer without the q_idx < 0 check of lines 382-384
answer_unchecked(session_id, answer_value) ==
    /\ IF session_id \notin DOMAIN sessions
       THEN /\ response' = Error("answer", session_id, 404)
            /\ UNCHANGED <<sessions, applied>>
       ELSE LET state == sessions[session_id]
                q_idx == state.current_question_idx
                updated == AnswerUpdated(state, state.current_probs,
                                         q_idx, answer_value)
                new_probs == updated.current_probs
                next == AnswerNextQuestion(updated, new_probs, q_idx)
            IN  /\ sessions' = [sessions EXCEPT ![session_id] =
                       [updated EXCEPT !.current_question_idx =
                           IF next # None THEN next[1] ELSE -1]]
                /\ applied' = IF q_idx \in DOMAIN applied[session_id]
                              THEN [applied EXCEPT ![session_id][q_idx] = @ + 1]
                              ELSE applied
                /\ response' = AnswerResponse(session_id, answer_value,
                                              q_idx, next, new_probs)
    /\ UNCHANGED <<engine, threads, call>>

\* the whole handler, run without interruption
answer(session_id, answer_value) ==
    /\ IF session_id \notin DOMAIN sessions
       THEN /\ response' = Error("answer", session_id, 404)
            /\ UNCHANGED <<sessions, applied>>
       ELSE LET state == sessions[session_id]
                q_idx == state.current_question_idx
            IN  IF q_idx < 0
                THEN /\ response' = Error("answer", session_id, 400)
                     /\ UNCHANGED <<sessions, applied>>
                ELSE LET updated == AnswerUpdated(state, state.current_probs,
                                                  q_idx, answer_value)
                         new_probs == updated.current_probs
                         next == AnswerNextQuestion(updated, new_probs, q_idx)
                     IN  /\ sessions' = [sessions EXCEPT ![session_id] =
                                [updated EXCEPT !.current_question_idx =
                                    IF next # None THEN next[1] ELSE -1]]
                         /\ applied' = [applied EXCEPT ![session_id][q_idx] = @ + 1]
                         /\ response' = AnswerResponse(session_id, answer_value,
                                                       q_idx, next, new_probs)
    /\ UNCHANGED <<engine, threads, call>>

guess(session_id) ==
    /\ IF session_id \notin DOMAIN sessions
       THEN response' = Error("guess", session_id, 404)
       ELSE LET top == get_top_guess(engine, sessions[session_id].current_probs,
                                     FORCED_GUESS_THRESHOLD)
            IN  IF top = None
                THEN response' = Error("guess", session_id, 500)
                ELSE response' = [op |-> "guess", status |-> 200,
                                  session_id |-> session_id,
                                  name |-> top[1], probability |-> top[2]]
    /\ UNCHANGED <<engine, sessions, threads, applied, call>>

-----------------------------------------------------------------------------
(* /answer run by the worker threads of the server: the handler holds no   *)
(* lock, so the threads interleave between its reads and writes of the     *)
(* session.                                                                *)

\* lines 379-385: look the session up, read current_question_idx and
\* current_probs
answer_read(t, session_id, answer_value) ==
    /\ threads[t].pc = "idle"
    /\ IF session_id \notin DOMAIN sessions
       THEN /\ response' = Error("answer", session_id, 404)
            /\ UNCHANGED threads
       ELSE LET state == sessions[session_id]
                q_idx == state.current_question_idx
            IN  IF q_idx < 0
                THEN /\ response' = Error("answer", session_id, 400)
                     /\ UNCHANGED threads
                ELSE /\ threads' = [threads EXCEPT ![t] =
                            [pc |-> "update", session_id |-> session_id,
                             answer_value |-> answer_value, q_idx |-> q_idx,
                             current_probs |-> state.current_probs]]
                     /\ UNCHANGED response
    /\ UNCHANGED <<engine, sessions, applied, call>>

\* variant of answer_update in which the sessions share one belief tensor
answer_update_shared(t) ==
    /\ threads[t].pc = "update"
    /\ LET th == threads[t]
           updated == AnswerUpdated(sessions[th.session_id], th.current_probs,
                                    th.q_idx, th.answer_value)
       IN  /\ sessions' = [s \in DOMAIN sessions |->
                  IF s = th.session_id THEN updated
                  ELSE [sessions[s] EXCEPT !.current_probs = updated.current_probs]]
           /\ applied' = [applied EXCEPT ![th.session_id][th.q_idx] = @ + 1]
           /\ threads' = [threads EXCEPT ![t] =
                  [pc |-> "next", session_id |-> th.session_id,
                   answer_value |-> th.answer_value, q_idx |-> th.q_idx,
                   new_probs |-> updated.current_probs]]
    /\ UNCHANGED <<engine, response, call>>

\* lines 387-396: update the belief read before and write it back, add the
\* question to asked_set, count and resolve its category
answer_update(t) ==
    /\ threads[t].pc = "update"
    /\ LET th == threads[t]
           updated == AnswerUpdated(sessions[th.session_id], th.current_probs,
                                    th.q_idx, th.answer_value)
       IN  /\ sessions' = [sessions EXCEPT ![th.session_id] = updated]
           /\ applied' = [applied EXCEPT ![th.session_id][th.q_idx] = @ + 1]
           /\ threads' = [threads EXCEPT ![t] =
                  [pc |-> "next", session_id |-> th.session_id,
                   answer_value |-> th.answer_value, q_idx |-> th.q_idx,
                   new_probs |-> updated.current_probs]]
    /\ UNCHANGED <<engine, response, call>>

\* lines 399-415: pick the next question, store it and respond
answer_next(t) ==
    /\ threads[t].pc = "next"
    /\ LET th == threads[t]
           next == AnswerNextQuestion(sessions[th.session_id], th.new_probs, th.q_idx)
       IN  /\ sessions' = [sessions EXCEPT ![th.session_id].current_question_idx =
                  IF next # None THEN next[1] ELSE -1]
           /\ response' = AnswerResponse(th.session_id, th.answer_value,
                                         th.q_idx, next, th.new_probs)
           /\ threads' = [threads EXCEPT ![t] = Idle]
    /\ UNCHANGED <<engine, applied, call>>

-----------------------------------------------------------------------------
(* Specifications *)

\* no call of the engine from outside the server
NoCall == [op |-> "none"]

Startup(data) ==
    /\ engine = AkinatorEngine(data)
    /\ sessions = <<>>
    /\ applied = <<>>
    /\ response = [op |-> "startup", status |-> 200]
    /\ threads = [t \in Threads |-> Idle]
    /\ call = NoCall

\* a server on the example knowledge base, one request at a time; clients
\* may send any session id
Init == Startup(ExampleData)
StartGame == start_game(MaxSessions)
Answer == \E s \in SessionIds, a \in AnswerValues : answer(s, a)
Guess == \E s \in SessionIds : guess(s)
Next == StartGame \/ Answer \/ Guess
Spec == Init /\ [][Next]_vars

\* single games on the small and on the big knowledge base, the client
\* using the session id it was given
InitGame == \E data \in {SmallData, BigData} : Startup(data)
StartOneGame == start_game(MaxGames)
AnswerGame == \E s \in DOMAIN sessions, a \in AnswerValues : answer(s, a)
GuessGame == \E s \in DOMAIN sessions : guess(s)
NextGame == StartOneGame \/ AnswerGame \/ GuessGame
SpecGame == InitGame /\ [][NextGame]_vars

\* the same games with players who keep answering: weak fairness of the
\* /answer requests of every session. CanAnswer(s) is ENABLED <<AnswerOf(s)>>_vars
\* written out: a request to a session with a question changes the session,
\* and a rejected one changes the response unless it repeats the last request.
GameIds == 1..MaxGames
AnswerOf(s) == s \in DOMAIN sessions /\ \E a \in AnswerValues : answer(s, a)
CanAnswer(s) ==
    /\ s \in DOMAIN sessions
    /\ \/ sessions[s].current_question_idx >= 0
       \/ response # Error("answer", s, 400)
KeepsAnswering(s) == []<>(~CanAnswer(s)) \/ []<><<AnswerOf(s)>>_vars
SpecGameFair == SpecGame /\ \A s \in GameIds : KeepsAnswering(s)

\* the server on the example knowledge base with /answer requests running
\* concurrently
AnswerRead == \E t \in Threads, s \in DOMAIN sessions, a \in AnswerValues : answer_read(t, s, a)
AnswerUpdate == \E t \in Threads : answer_update(t)
AnswerNext == \E t \in Threads : answer_next(t)
NextConc == StartOneGame \/ AnswerRead \/ AnswerUpdate \/ AnswerNext
SpecConc == Init /\ [][NextConc]_vars

\* the server started on any of the data directories
InitData == \E data \in {ExampleData, LongListsData, LowerCaseData} : Startup(data)
SpecData == InitData /\ [][Next]_vars

\* the server on the example knowledge base with the requests of different
\* sessions running concurrently: thread t serves the requests of session t
AnswerReadOwn == \E t \in Threads \cap DOMAIN sessions, a \in AnswerValues : answer_read(t, t, a)
NextPar == StartGame \/ AnswerReadOwn \/ AnswerUpdate \/ AnswerNext \/ Guess
SpecPar == Init /\ [][NextPar]_vars

-----------------------------------------------------------------------------
(* The three operations of the engine called from outside the server, with *)
(* any arguments.  A call is recorded with its arguments, the argument     *)
(* objects as the call leaves them, and what it returns or raises.         *)

\* what a call that raises IndexError leaves instead of a result
IndexError == [raised |-> "IndexError"]

\* the in-place variant of call_update_belief: current_probs *= likelihood,
\* current_probs /= total
call_update_in_place(e, args) ==
    LET result == IF IndexInRange(e, args.question_idx)
                  THEN update_belief(e, args.current_probs, args.question_idx, args.answer_val)
                  ELSE IndexError
    IN  [op |-> "update_belief", args |-> args,
         after |-> IF result = IndexError THEN args
                   ELSE [args EXCEPT !.current_probs = result],
         result |-> result]

\* update_belief builds new tensors (current_probs * likelihood,
\* new_probs / total) and writes to none it was given
call_update_belief(e, args) ==
    [op |-> "update_belief", args |-> args, after |-> args,
     result |-> IF IndexInRange(e, args.question_idx)
                THEN update_belief(e, args.current_probs, args.question_idx, args.answer_val)
                ELSE IndexError]

\* get_next_question: masked_fill and "or set()" build new objects
call_get_next_question(e, args) ==
    [op |-> "get_next_question", args |-> args, after |-> args,
     result |-> get_next_question(e, args.current_probs, args.asked_mask,
                    args.last_asked_idx, args.resolved_categories,
                    args.asked_count_per_category)]

\* get_top_guess only reads current_probs
call_get_top_guess(e, args) ==
    [op |-> "get_top_guess", args |-> args, after |-> args,
     result |-> get_top_guess(e, args.current_probs, args.threshold)]

\* bound of the model: the entries of an argument belief are 0..MaxWeight
\* parts of their sum
MaxWeight == 2

\* the beliefs given as arguments: every vector of weights, normalised,
\* and the vector of zeros
CoreBeliefs(e) ==
    {Reduce([n |-> w, d |-> IF SumTo(w, e.N) = 0 THEN 1 ELSE SumTo(w, e.N)], e.N) :
        w \in [Candidates(e) -> 0..MaxWeight]}

CoreCategories(e) == {_feature_category(e.features[j]) : j \in Features(e)} \ {NoCategory}

CallUpdateBelief ==
    /\ call = NoCall
    /\ \E current_probs \in CoreBeliefs(engine), question_idx \in (0 - engine.M - 1)..engine.M, answer_val \in AnswerValues :
          call' = call_update_belief(engine,
                      [current_probs |-> current_probs, question_idx |-> question_idx,
                       answer_val |-> answer_val])
    /\ UNCHANGED <<engine, sessions, response, threads, applied>>

CallGetNextQuestion ==
    /\ call = NoCall
    /\ \E current_probs \in CoreBeliefs(engine), asked_set \in SUBSET Features(engine), last \in {None} \cup {<<j>> : j \in Features(engine)}, resolved \in SUBSET CoreCategories(engine), capped \in SUBSET CoreCategories(engine) :
          call' = call_get_next_question(engine,
                      [current_probs |-> current_probs,
                       asked_mask |-> _asked_mask(asked_set, engine.M),
                       last_asked_idx |-> last,
                       resolved_categories |-> resolved,
                       asked_count_per_category |->
                           [c \in capped |-> MAX_QUESTIONS_PER_CATEGORY]])
    /\ UNCHANGED <<engine, sessions, response, threads, applied>>

CallGetTopGuess ==
    /\ call = NoCall
    /\ \E current_probs \in CoreBeliefs(engine), threshold \in {FORCED_GUESS_THRESHOLD, ANSWER_GUESS_THRESHOLD} :
          call' = call_get_top_guess(engine,
                      [current_probs |-> current_probs, threshold |-> threshold])
    /\ UNCHANGED <<engine, sessions, response, threads, applied>>

\* the caller has taken the result
Return ==
    /\ call # NoCall
    /\ call' = NoCall
    /\ UNCHANGED <<engine, sessions, response, threads, applied>>

NextCore == CallUpdateBelief \/ CallGetNextQuestion \/ CallGetTopGuess \/ Return
SpecCore == Init /\ [][NextCore]_vars

-----------------------------------------------------------------------------
(* Properties *)

Category(j) == _feature_category(engine.features[j])

\* the sessions a step has created or written to
Touched == {s \in DOMAIN sessions' : s \notin DOMAIN sessions \/ sessions'[s] # sessions[s]}

\* the question asked before the one a step has returned, -1 for none
LastAsked(s) == IF s \in DOMAIN sessions THEN sessions[s].current_question_idx ELSE -1

\* C1: in every session, after start_game and after every update_belief,
\* the belief is non-negative and sums to 1
C1_BeliefIsDistribution ==
    \A s \in DOMAIN sessions :
        LET belief == sessions[s].current_probs
        IN  /\ belief.d > 0
            /\ \A i \in Candidates(engine) : belief.n[i] >= 0
            /\ SumOver(belief.n, Candidates(engine)) = belief.d

\* an answer has changed the belief of a session
C1_Witness ==
    \E s \in DOMAIN sessions :
        /\ sessions[s].asked_set # {}
        /\ sessions[s].current_probs # engine.prior_probs

\* C2: update_belief never turns a positive belief entry into 0, so a
\* candidate with positive prior keeps a positive belief whatever is answered
C2_SupportKept ==
    [][\A s \in DOMAIN sessions : \A i \in Candidates(engine) :
          sessions[s].current_probs.n[i] > 0 => sessions'[s].current_probs.n[i] > 0]_vars

\* answers have taken a candidate below a tenth of its prior, and it is
\* still possible
C2_Witness ==
    \E s \in DOMAIN sessions : \E i \in Candidates(engine) :
        LET belief == sessions[s].current_probs
        IN  /\ belief.n[i] > 0
            /\ belief.n[i] * engine.prior_probs.d * 10 < engine.prior_probs.n[i] * belief.d

\* C3: a feature that was asked is never returned again: the current question
\* of a session is not in its asked_set, and no feature is answered twice
C3_NeverAskedTwice ==
    \A s \in DOMAIN sessions :
        /\ sessions[s].current_question_idx \notin sessions[s].asked_set
        /\ \A j \in Features(engine) : applied[s][j] <= 1
        /\ \A j \in Features(engine) : applied[s][j] = 1 <=> j \in sessions[s].asked_set

\* a third question is asked after two answered ones
C3_Witness ==
    \E s \in DOMAIN sessions :
        /\ Cardinality(sessions[s].asked_set) >= 2
        /\ sessions[s].current_question_idx >= 0

\* C4: a resolved category stays resolved, and no question returned for the
\* session from then on has that category
C4_ResolvedNeverAsked ==
    [][\A s \in Touched :
          /\ s \in DOMAIN sessions =>
                sessions[s].resolved_categories \subseteq sessions'[s].resolved_categories
          /\ sessions'[s].current_question_idx >= 0 =>
                Category(sessions'[s].current_question_idx)
                    \notin sessions'[s].resolved_categories]_vars

\* a question is asked while an unasked feature with a known value of a
\* resolved category is left
C4_Witness ==
    \E s \in DOMAIN sessions :
        /\ sessions[s].current_question_idx >= 0
        /\ \E j \in Features(engine) :
              /\ j \notin sessions[s].asked_set
              /\ ~_is_unknown_value(engine.features[j])
              /\ Category(j) \in sessions[s].resolved_categories

\* feature h is unasked, has a known value and no resolved category
Askable(state, h) ==
    /\ h \notin state.asked_set
    /\ ~_is_unknown_value(engine.features[h])
    /\ Category(h) \notin state.resolved_categories

\* the category of feature h has been asked about 4 times or more
AtCap(state, h) ==
    /\ Category(h) # NoCategory
    /\ Get(state.asked_count_per_category, Category(h)) >= MAX_QUESTIONS_PER_CATEGORY

\* feature h has the category of the question asked last
LastCategory(last, h) ==
    last >= 0 /\ Category(last) # NoCategory /\ Category(h) = Category(last)

\* an alternative to a question over the cap
Alternative(state, last, h) ==
    Askable(state, h) /\ ~AtCap(state, h) /\ ~LastCategory(last, h)

\* more than 25 candidates hold over 0.001 of the belief
ManyEffective(belief) ==
    Cardinality({i \in Candidates(engine) : belief.n[i] * 1000 > belief.d}) > NARROWED_EFFECTIVE_N

\* P(Yes) of feature h is within [0.01, 0.99]
Informative(belief, h) ==
    LET p_yes == SumOver([i \in Candidates(engine) |-> belief.n[i] * engine.KB[i][h]], Candidates(engine))
    IN  /\ p_yes * 100 >= belief.d * AnswerUnit
        /\ p_yes * 100 <= 99 * belief.d * AnswerUnit

\* C5 as stated: a question whose category is at the cap is returned only
\* when there is no alternative: no askable feature under the cap and of
\* another category than the last question's
C5_CapUnlessNoAlternative ==
    [][\A s \in Touched :
          LET state == sessions'[s]
              j == state.current_question_idx
          IN  (j >= 0 /\ AtCap(state, j)) =>
                  ~\E h \in Features(engine) : Alternative(state, LastAsked(s), h)]_vars

\* C5: a question whose category is at the cap is returned only when
\* passes 1 and 2 find nothing: when there is no alternative, or when more
\* than 25 candidates are effective and no alternative has P(Yes) within
\* [0.01, 0.99]
C5_CapUnlessNoInformativeAlternative ==
    [][\A s \in Touched :
          LET state == sessions'[s]
              j == state.current_question_idx
          IN  (j >= 0 /\ AtCap(state, j)) =>
                  ~\E h \in Features(engine) :
                      /\ Alternative(state, LastAsked(s), h)
                      /\ ManyEffective(state.current_probs) =>
                            Informative(state.current_probs, h)]_vars

\* a fifth question of a category is asked
C5_Witness ==
    \E s \in DOMAIN sessions :
        /\ sessions[s].current_question_idx >= 0
        /\ AtCap(sessions[s], sessions[s].current_question_idx)

\* C6: a session has no question left if and only if every feature is
\* asked, has an unknown value or has a resolved category
C6_NoneIffNothingAskable ==
    \A s \in DOMAIN sessions :
        sessions[s].current_question_idx < 0 <=>
            ~\E h \in Features(engine) : Askable(sessions[s], h)

\* the questions have run out with features left unasked
C6_Witness ==
    \E s \in DOMAIN sessions :
        /\ sessions[s].current_question_idx < 0
        /\ sessions[s].asked_set # Features(engine)

\* the largest entry of a belief, as a numerator
MaxBelief(belief) ==
    CHOOSE m \in {belief.n[i] : i \in Candidates(engine)} :
        \A i \in Candidates(engine) : belief.n[i] <= m

\* name is a candidate holding the largest entry, probability is that entry
IsBest(belief, name, probability) ==
    /\ probability = <<MaxBelief(belief), belief.d>>
    /\ \E i \in Candidates(engine) :
          engine.candidates[i] = name /\ belief.n[i] = MaxBelief(belief)

\* C7: /guess answers every existing session with the candidate of maximum
\* belief and that probability; /answer reports a guess exactly when the
\* updated maximum belief is at least 0.8, and then that candidate
C7_TopGuess ==
    /\ (response.op = "guess" /\ response.session_id \in DOMAIN sessions) =>
          /\ response.status = 200
          /\ IsBest(sessions[response.session_id].current_probs,
                    response.name, response.probability)
    /\ (response.op = "answer" /\ response.status = 200) =>
          LET belief == sessions[response.session_id].current_probs
          IN  /\ response.top_guess # None <=>
                    MaxBelief(belief) * 10 >= ANSWER_GUESS_THRESHOLD * belief.d
              /\ response.top_guess # None =>
                    IsBest(belief, response.top_guess[1], response.top_guess_probability)
    \* belief (0.85, 0.10, 0.05): candidate 0 at threshold 0.8, None at 0.9
    /\ LET example == AkinatorEngine(ExampleData)
           belief == [n |-> ZeroBased(<<17, 2, 1>>), d |-> 20]
       IN  /\ get_top_guess(example, belief, 8) = <<example.candidates[0], <<17, 20>>>>
           /\ get_top_guess(example, belief, 9) = None

\* /answer reports a guess that is not the first candidate
C7_Witness ==
    /\ response.op = "answer" /\ response.status = 200
    /\ response.top_guess # None
    /\ response.top_guess[1] # engine.candidates[0]

\* the likelihoods L_i of the reference update, times a common factor
ReferenceLikelihood(j, a) ==
    LET kb(i) == engine.KB[i][j]
        soft(i) == AnswerUnit - Abs(kb(i) - a)
    IN  IF a * 10 >= 7 * AnswerUnit
        THEN [i \in Candidates(engine) |-> IF kb(i) * 2 >= AnswerUnit THEN 9 ELSE 1]
        ELSE IF a * 10 <= 3 * AnswerUnit
        THEN [i \in Candidates(engine) |-> IF kb(i) * 2 < AnswerUnit THEN 9 ELSE 1]
        ELSE IF \A i \in Candidates(engine) : soft(i) > 0
        THEN [i \in Candidates(engine) |-> soft(i)]
        ELSE [i \in Candidates(engine) |->
                IF soft(i) > 0 THEN soft(i) * Mega ELSE AnswerUnit]

\* new[i] = old[i] * L_i / sum_k old[k] * L_k, for every candidate i
IsBayesUpdate(old, new, L) ==
    LET weight == [i \in Candidates(engine) |-> old.n[i] * L[i]]
        total == SumOver(weight, Candidates(engine))
    IN  \A i \in Candidates(engine) : new.n[i] * total = weight[i] * new.d

\* C8: every answer replaces the belief of its session by the reference
\* Bayesian update for the answered question and the answer value; the prior
\* (0.5, 0.3, 0.2) with column (1, 0, 1) and answer 1.0 gives
\* (15/22, 1/22, 6/22)
C8_BayesUpdate ==
    [][/\ \A s \in Touched \cap DOMAIN sessions :
             IsBayesUpdate(sessions[s].current_probs, sessions'[s].current_probs,
                 ReferenceLikelihood(sessions[s].current_question_idx,
                                     response'.answer_value))
       /\ LET example == AkinatorEngine(ExampleData)
          IN  update_belief(example, example.prior_probs, 0, AnswerUnit)
                  = [n |-> ZeroBased(<<15, 1, 6>>), d |-> 22]]_vars

\* a belief other than the prior has been updated by a "don't know"
C8_Witness ==
    \E s \in DOMAIN sessions :
        /\ response.op = "answer" /\ response.status = 200
        /\ response.session_id = s /\ response.answer_value * 2 = AnswerUnit
        /\ Cardinality(sessions[s].asked_set) >= 2
        /\ sessions[s].current_probs # engine.prior_probs

\* the features that relaxation pass 1..4 leaves eligible
Eligible(state, last, pass) ==
    LET entropy == PassEntropy(engine, pass, state.current_probs,
                       _asked_mask(state.asked_set, engine.M),
                       IF last >= 0 THEN <<last>> ELSE None,
                       state.resolved_categories, state.asked_count_per_category)
    IN  {h \in Features(engine) : entropy[h] # NegInf}

\* H[h] + 0.3 * H_topk[h], times ten
CombinedScore(belief, h) ==
    10 * Entropy(engine, belief)[h]
    + TOP_K_DISCRIMINATION_BETA * _entropy_topk(engine, belief)[h]

\* C9: a returned question has the maximum of H + 0.3 * H_topk among the
\* features eligible in the first pass that leaves any; on the example
\* (P(Yes) 0.7 for feature 0, 0.5 for feature 1) feature 1 is returned
C9_MaxCombinedScore ==
    [][/\ \A s \in Touched :
             LET state == sessions'[s]
                 j == state.current_question_idx
             IN  j >= 0 =>
                   \E pass \in 1..4 :
                       /\ \A earlier \in 1..(pass - 1) :
                             Eligible(state, LastAsked(s), earlier) = {}
                       /\ j \in Eligible(state, LastAsked(s), pass)
                       /\ \A h \in Eligible(state, LastAsked(s), pass) :
                             CombinedScore(state.current_probs, h)
                                 <= CombinedScore(state.current_probs, j)
       /\ LET example == AkinatorEngine(ExampleData)
              p_yes == PYesNum(example, example.prior_probs)
              den == PYesDen(example.prior_probs)
          IN  /\ p_yes[0] * 10 = 7 * den /\ p_yes[1] * 10 = 5 * den
              /\ get_next_question(example, example.prior_probs,
                     _asked_mask({}, example.M), None, {}, <<>>)[1] = 1]_vars

\* the question returned is not the first askable feature
C9_Witness ==
    \E s \in DOMAIN sessions :
        /\ sessions[s].asked_set # {}
        /\ \E h \in Features(engine) :
              h < sessions[s].current_question_idx /\ Askable(sessions[s], h)

\* the asked features of a category
AskedOf(state, cat) == {j \in state.asked_set : Category(j) = cat}

\* C10: concurrent /answer requests of a session are serialised: every asked
\* question updates the session once, and between requests the count of a
\* category is the number of its asked features
C10_AnswersSerialised ==
    \A s \in DOMAIN sessions :
        /\ \A j \in Features(engine) : applied[s][j] <= 1
        /\ (\A t \in Threads : threads[t].pc = "idle") =>
              \A cat \in {Category(j) : j \in Features(engine)} \ {NoCategory} :
                  Get(sessions[s].asked_count_per_category, cat)
                      = Cardinality(AskedOf(sessions[s], cat))

\* C11: a request changes no session but its own, and no request changes the
\* knowledge base or the prior: whenever a step changes a session, it is a
\* step of a request for that session, and every other session is unchanged
C11_SessionsIsolated ==
    [][/\ engine' = engine
       /\ \A s \in DOMAIN sessions :
             sessions'[s] # sessions[s] =>
                 /\ \E t \in Threads :
                       /\ threads[t].pc # "idle" /\ threads[t].session_id = s
                       /\ threads'[t] # threads[t]
                 /\ \A u \in DOMAIN sessions \ {s} : sessions'[u] = sessions[u]]_vars

\* a request is half-way through one session while another session has
\* already been answered
C11_Witness ==
    \E s, u \in DOMAIN sessions :
        /\ s # u
        /\ sessions[u].asked_set # {}
        /\ \E t \in Threads : threads[t].pc = "next" /\ threads[t].session_id = s

\* C12: an /answer or /guess request with a session id that is not in the
\* session map is answered with 404 and changes no session and creates none
C12_UnknownSession ==
    [][(response'.op \in {"answer", "guess"}
            /\ response'.session_id \notin DOMAIN sessions) =>
          /\ response'.status = 404
          /\ sessions' = sessions
          /\ engine' = engine]_vars

\* an unknown session id has been refused while a game is under way
C12_Witness ==
    /\ response.op \in {"answer", "guess"}
    /\ response.session_id \notin DOMAIN sessions
    /\ \E s \in DOMAIN sessions : sessions[s].asked_set # {}

\* C13: update_belief with a feature index outside 0..M-1 raises an error
\* and returns no belief
C13_BadIndexRaises ==
    (call.op = "update_belief" /\ call.args.question_idx \notin Features(engine)) =>
        call.result = IndexError

\* what the operation of call c returns when it is called again with the
\* arguments as the call has left them
CalledAgain(c) ==
    CASE c.op = "update_belief" -> call_update_belief(engine, c.after).result
      [] c.op = "get_next_question" -> call_get_next_question(engine, c.after).result
      [] c.op = "get_top_guess" -> call_get_top_guess(engine, c.after).result

WellShaped(e) ==
    /\ e.N > 0 /\ e.M > 0
    /\ DOMAIN e.KB = 0..(e.N - 1)
    /\ \A i \in DOMAIN e.KB : DOMAIN e.KB[i] = 0..(e.M - 1)
    /\ DOMAIN e.candidates = 0..(e.N - 1)
    /\ DOMAIN e.features = 0..(e.M - 1)

\* C14: with a malformed knowledge base the engine does not come up and no
\* game starts
C14_MalformedFails == WellShaped(engine) \/ DOMAIN sessions = {}

C17_PassesLooser ==
    [][\A s \in Touched : \A k \in 1..3 :
          Eligible(sessions'[s], LastAsked(s), k)
              \subseteq Eligible(sessions'[s], LastAsked(s), k + 1)]_vars

\* C17: the features eligible in pass 2 are eligible in pass 3, those of
\* pass 3 in pass 4, and those of pass 1 in pass 3; those of pass 1 are
\* eligible in pass 2 when pass 1 applies the P(Yes) bounds, that is when
\* more than 25 candidates are effective
C17_PassesLooserFromPass2 ==
    [][\A s \in Touched :
          LET eligible(k) == Eligible(sessions'[s], LastAsked(s), k)
          IN  /\ eligible(2) \subseteq eligible(3)
              /\ eligible(3) \subseteq eligible(4)
              /\ eligible(1) \subseteq eligible(3)
              /\ ManyEffective(sessions'[s].current_probs) =>
                    eligible(1) \subseteq eligible(2)]_vars

\* the state of the session and the question answered by the last /answer
AnsweredState == sessions[response.session_id]
Answered == response.op = "answer" /\ response.status = 200

\* few candidates are effective, and a feature eligible in pass 1 is
\* excluded from pass 2 by its P(Yes)
C17_Witness ==
    /\ Answered
    /\ ~ManyEffective(AnsweredState.current_probs)
    /\ \E h \in Eligible(AnsweredState, response.answered, 1) :
          /\ h \notin Eligible(AnsweredState, response.answered, 2)
          /\ h \in Eligible(AnsweredState, response.answered, 3)

\* P(Yes) of feature h is within [0.03, 0.97]
WithinDefaultBounds(belief, h) ==
    LET p_yes == SumOver([i \in Candidates(engine) |-> belief.n[i] * engine.KB[i][h]], Candidates(engine))
    IN  /\ p_yes * 100 >= MIN_P_YES * belief.d * AnswerUnit
        /\ p_yes * 100 <= MAX_P_YES * belief.d * AnswerUnit

\* C18 as stated: pass 1 skips the P(Yes) bounds when more than 25
\* candidates are effective and applies them when 25 or fewer are
C18_BoundsSkippedWhenMany ==
    [][\A s \in Touched :
          Eligible(sessions'[s], LastAsked(s), 1) =
              {h \in Features(engine) :
                  /\ Alternative(sessions'[s], LastAsked(s), h)
                  /\ ~ManyEffective(sessions'[s].current_probs) =>
                        WithinDefaultBounds(sessions'[s].current_probs, h)}]_vars

\* C18: pass 1 applies the P(Yes) bounds [0.03, 0.97] when more than 25
\* candidates are effective and skips them when 25 or fewer are
C18_BoundsSkippedWhenFew ==
    [][\A s \in Touched :
          Eligible(sessions'[s], LastAsked(s), 1) =
              {h \in Features(engine) :
                  /\ Alternative(sessions'[s], LastAsked(s), h)
                  /\ ManyEffective(sessions'[s].current_probs) =>
                        WithinDefaultBounds(sessions'[s].current_probs, h)}]_vars

\* few candidates are effective after an answer, and pass 1 leaves a feature
\* eligible whose P(Yes) is outside the bounds
C18_Witness ==
    /\ Answered
    /\ ~ManyEffective(AnsweredState.current_probs)
    /\ engine.N > NARROWED_EFFECTIVE_N
    /\ \E h \in Eligible(AnsweredState, response.answered, 1) :
          ~WithinDefaultBounds(AnsweredState.current_probs, h)

\* C19: for every non-negative belief, also one whose products with the
\* likelihoods sum to less than 1e-12, update_belief returns a distribution:
\* non-negative entries that sum to 1
C19_DegenerateStillDistribution ==
    (call.op = "update_belief" /\ call.args.question_idx \in Features(engine)) =>
        /\ call.result.d > 0
        /\ \A i \in Candidates(engine) : call.result.n[i] >= 0
        /\ SumOver(call.result.n, Candidates(engine)) = call.result.d

\* text t derives a category, in any letter case, and the rest of it up to
\* the "?" is "unknown"
CategoryUnknown(t) ==
    /\ \E cat \in {"gender", "country", "occupation"} :
          /\ Len(t.words) >= 3
          /\ Lower(t.words[1]) = "is" /\ Lower(t.words[2]) = cat
    /\ Len(t.words) = 3
    /\ Lower(t.words[3]) = "unknown"

\* C20: no question returned is a category question with the value
\* "unknown", in whatever letter case its text is written
C20_UnknownNeverAsked ==
    \A s \in DOMAIN sessions :
        sessions[s].current_question_idx >= 0 =>
            ~CategoryUnknown(engine.features[sessions[s].current_question_idx])

\* C21: exhaustion is absorbing. For a session whose current_question_idx is
\* negative, no step changes the session (belief, asked_set,
\* resolved_categories and the per-category counts included), every /answer
\* for it is answered 400, and /guess for it is answered 200 with a candidate
\* of maximal belief.
Exhausted(s) == s \in DOMAIN sessions /\ sessions[s].current_question_idx < 0

C21_ExhaustionAbsorbing ==
    [][\A s \in SessionIds : Exhausted(s) =>
          /\ s \in DOMAIN sessions'
          /\ sessions'[s] = sessions[s]
          /\ (response'.op = "answer" /\ response'.session_id = s)
                => response'.status = 400
          /\ (response'.op = "guess" /\ response'.session_id = s)
                => /\ response'.status = 200
                   /\ IsBest(sessions[s].current_probs, response'.name,
                             response'.probability)
      ]_vars

C21_Witness ==
    /\ response.op = "answer"
    /\ response.status = 400
    /\ Exhausted(response.session_id)
    /\ sessions[response.session_id].asked_set # {}

\* C22: with requests handled one at a time, in every state and for every
\* session, the count of every category is the number of asked features of
\* that category (a category without a count has no asked feature, and only
\* categories have a count), and current_question_idx is -1 or the index of
\* a feature that is not in asked_set.
C22_CountsMatchAsked ==
    \A s \in DOMAIN sessions :
        LET state == sessions[s]
            counts == state.asked_count_per_category
            cur == state.current_question_idx
        IN  /\ NoCategory \notin DOMAIN counts
            /\ \A cat \in (DOMAIN counts \cup {Category(j) : j \in Features(engine)})
                            \ {NoCategory} :
                   Get(counts, cat) = Cardinality(AskedOf(state, cat))
            /\ state.asked_set \subseteq Features(engine)
            /\ \/ cur = -1
               \/ cur \in Features(engine) /\ cur \notin state.asked_set

C22_Witness ==
    \E s \in DOMAIN sessions :
        /\ \E cat \in DOMAIN sessions[s].asked_count_per_category :
               sessions[s].asked_count_per_category[cat] >= 2
        /\ \E j \in sessions[s].asked_set : Category(j) = NoCategory
        /\ sessions[s].current_question_idx >= 0

\* an /answer request of session s that the step has accepted
Accepted(s) ==
    /\ response' # response
    /\ response'.op = "answer"
    /\ response'.status = 200
    /\ response'.session_id = s

\* C23: every game terminates. Each accepted /answer adds exactly one new
\* feature index, the answered question, to asked_set, and no other step
\* changes asked_set; a session has accepted as many answers as asked_set has
\* elements, which is at most M; and when the player keeps answering, every
\* session eventually reaches current_question_idx = -1, after which no
\* /answer is accepted.
C23_GameTerminates ==
    /\ [](\A s \in DOMAIN sessions :
            /\ Cardinality(sessions[s].asked_set) <= Cardinality(Features(engine))
            /\ SumOver(applied[s], Features(engine))
                   = Cardinality(sessions[s].asked_set))
    /\ [][\A s \in DOMAIN sessions :
            LET q == sessions[s].current_question_idx
            IN  /\ Accepted(s) =>
                      /\ q \notin sessions[s].asked_set
                      /\ sessions'[s].asked_set = sessions[s].asked_set \cup {q}
                /\ ~Accepted(s) => sessions'[s].asked_set = sessions[s].asked_set
                /\ Exhausted(s) => ~Accepted(s) /\ Exhausted(s)'
         ]_vars
    /\ \A s \in GameIds : (s \in DOMAIN sessions) ~> Exhausted(s)

C23_Witness ==
    \E s \in DOMAIN sessions :
        /\ Exhausted(s)
        /\ Cardinality(sessions[s].asked_set) >= 3
        /\ sessions[s].asked_set # Features(engine)
        /\ response.op = "answer" /\ response.status = 200

====
